---- MODULE Spec2Model ----
(***************************************************************************)
(* Model of the Fluval BLE link: core/client.py (Client: connect task,     *)
(* keep-alive poll loop, send/ping/stop) and the part of core/device.py    *)
(* that receives the connectivity status (Device.set_connected).           *)
(*                                                                         *)
(* asyncio is cooperative: the code between two awaits runs atomically, so *)
(* every action below is one resumption of a task (or one synchronous call *)
(* from the host) up to its next await.  A transport call (connect,        *)
(* start_notify, read, write, disconnect) is an await whose completion,    *)
(* success or failure, is chosen by the environment.                       *)
(*                                                                         *)
(* Time: the code compares time.time() with deadlines it computed as       *)
(* time.time() + constant.  The model keeps every deadline as the time     *)
(* left until it (0 = reached or passed), so time.time() < deadline reads  *)
(* deadline > 0, and Tick lets Step seconds pass.                          *)
(***************************************************************************)
EXTENDS Integers, Sequences, FiniteSets, TLC

\* ---- program constants (core/client.py) ----
ACTIVE_TIME == 120
COMMAND_TIME == 15
PING_INTERVAL == 10
RECONNECT_DELAY == 5

\* ---- bounds of the model ----
MaxHandles == 2        \* transport sessions that can exist at once
MaxTasks == 2          \* slots for poll-loop task objects
MaxPending == 2        \* queued call_soon_threadsafe callbacks (saturating)
MaxOpTicks == 0        \* a transport call returns or raises after at most
                       \* MaxOpTicks steps of the clock (0: before the
                       \* clock's next step, so within Step seconds)
MaxFalse == 2          \* counter of status(False) callbacks (saturating)
MaxPlain == 3          \* length of the plaintexts given to the codec

Step == RECONNECT_DELAY          \* granularity of the clock
QuietMax == ACTIVE_TIME + Step   \* "longer than ACTIVE_TIME"
OpTime == MaxOpTicks * Step      \* the longest a transport call takes
Handles == 1..MaxHandles
Tasks == 1..MaxTasks
\* Command payloads are byte sequences.  Payloads are the two frames of
\* Device.set_led_power; NoData stands for send_data = None, which the
\* test of line 179 does not tell from an empty payload.
Payloads == {<<104, 3, 0>>, <<104, 3, 1>>}
NoData == <<>>

Min(a, b) == IF a < b THEN a ELSE b

VARIABLES
    quiet,          \* time since the last send()/ping() call or construction
    client,         \* Client.client: 0 = None, else a handle
    open,           \* handles whose transport session is connected
    handshaken,     \* handles the link still uses on which the handshake
                    \* (read, then request-state write) completed
    stopped,        \* Client._stopped
    ping_task,      \* Client.ping_task: 0 = None, else a task slot
    ping_future,    \* Client.ping_future: 0 = None, else the task that made it
    ping_time,      \* Client.ping_time, as time left from time.time() on
    send_data,      \* Client.send_data
    send_time,      \* Client.send_time, as time left from time.time() on
    tasks,          \* poll-loop task objects: position and locals
    connect_task,   \* the construction-time connect task
    stop,           \* the stop() coroutine: position and locals
    connected,      \* Device.connected
    pendingFires,   \* _fire_connect_handlers callbacks queued on the loop
    falseCount,     \* status_callback(False) calls since stop() was called
    lastCmd,        \* what the command step of the current tick did
    sentSince,      \* send() calls since the last command step: how many
                    \* (0, 1, 2 = two or more) and the payload of the last
    values,         \* Device.values
    conn_info,      \* Device.conn_info: last_seen and rssi
    device,         \* Client.device: the transport descriptor
    receive_buffer, \* Client.receive_buffer
    call,           \* what the last call into the Device or the
                    \* notification handler did that its caller can see
    arrived,        \* the decrypted fragments notified since the last one
                    \* that was not a continuation fragment
    updates_connect,    \* Device.updates_connect: how many listeners
    updates_component,  \* Device.updates_component: how many listeners
    codec           \* a codec computation: plaintext, wire bytes, result

vars == <<quiet, client, open, handshaken, stopped, ping_task, ping_future,
          ping_time, send_data, send_time, tasks, connect_task, stop,
          connected, pendingFires, falseCount, lastCmd, sentSince,
          values, conn_info, device, receive_buffer, call, arrived,
          updates_connect, updates_component, codec>>

\* The variables of the Device, the reassembly buffer and the codec.
devVars == <<values, conn_info, device, receive_buffer, call, arrived,
             updates_connect, updates_component, codec>>

NoSends == [n |-> 0, last |-> NoData]

\* A poll-loop task slot that holds no running coroutine.
OffTask == [pc |-> "off", h |-> 0, dl |-> 0, cancel |-> FALSE,
            data |-> NoData, wake |-> "none"]

\* Positions of a poll-loop task that are awaits on a transport call.
LoopIO == {"connecting", "notifying", "hs_read", "hs_write", "ka_read",
           "cmd_write", "err_disc", "fin_disc"}
ConnIO == {"connecting", "notifying", "hs_read", "hs_write"}

\* The whole state as one record, so that the synchronous code between two
\* awaits can be written as a composition of functions on it.
Cur ==
    [quiet |-> quiet, client |-> client, open |-> open, handshaken |-> handshaken,
     stopped |-> stopped, ping_task |-> ping_task, ping_future |-> ping_future,
     ping_time |-> ping_time, send_data |-> send_data, send_time |-> send_time,
     tasks |-> tasks, connect_task |-> connect_task, stop |-> stop,
     connected |-> connected, pendingFires |-> pendingFires,
     falseCount |-> falseCount, lastCmd |-> lastCmd,
     sentSince |-> sentSince]

\* Handles the client or a transport call under way refers to.
Referenced(s) ==
    {s.client, s.connect_task.h, s.stop.h} \cup {s.tasks[t].h : t \in Tasks}

CommitLink(s) ==
    /\ quiet' = s.quiet
    /\ client' = s.client
    /\ open' = s.open
    /\ handshaken' = s.handshaken \cap Referenced(s)
    /\ stopped' = s.stopped
    /\ ping_task' = s.ping_task
    /\ ping_future' = s.ping_future
    /\ ping_time' = s.ping_time
    /\ send_data' = s.send_data
    /\ send_time' = s.send_time
    /\ tasks' = s.tasks
    /\ connect_task' = s.connect_task
    /\ stop' = s.stop
    /\ connected' = s.connected
    /\ pendingFires' = s.pendingFires
    /\ falseCount' = s.falseCount
    /\ lastCmd' = s.lastCmd
    /\ sentSince' = s.sentSince

\* A step of the link: the Device's attributes, the reassembly buffer and
\* the descriptor stay as they are.
Commit(s) == CommitLink(s) /\ UNCHANGED devVars

\* Client.__init__: the connect task is created but has not run yet,
\* nothing is connected, no poll loop exists.
LinkInit ==
    /\ quiet = 0
    /\ client = 0
    /\ open = {}
    /\ handshaken = {}
    /\ stopped = FALSE
    /\ ping_task = 0
    /\ ping_future = 0
    /\ ping_time = 0
    /\ send_data = NoData
    /\ send_time = 0
    /\ tasks = [t \in Tasks |-> OffTask]
    /\ connect_task = [pc |-> "start", h |-> 0, dl |-> 0, cancel |-> FALSE]
    /\ stop = [pc |-> "idle", task |-> 0, h |-> 0, dl |-> 0]
    /\ connected = FALSE
    /\ pendingFires = 0
    /\ falseCount = 0
    /\ lastCmd = "none"
    /\ sentSince = NoSends

\* ---------------------------------------------------------------------
\* Device (core/device.py): names, attribute values, construction
\* ---------------------------------------------------------------------

\* Attribute names are character sequences, so that str.startswith can be
\* computed on them.
CHANNEL_PREFIX == <<"c", "h", "a", "n", "n", "e", "l", "_">>
Channel(k) == CHANNEL_PREFIX \o <<k>>
NUMBERS == <<Channel("1"), Channel("2"), Channel("3"), Channel("4"),
             Channel("5")>>
MODE == <<"m", "o", "d", "e">>
LED_ON_OFF == <<"l", "e", "d", "_", "o", "n", "_", "o", "f", "f">>
CONNECTION == <<"c", "o", "n", "n", "e", "c", "t", "i", "o", "n">>
MODES == <<"manual", "automatic", "professional">>

\* Names a caller can pass that the Device does not know.
UnknownNames == {Channel("6"), <<"c", "h", "a", "n", "n", "e", "l">>,
                 <<"p", "o", "w", "e", "r">>}
Range(f) == {f[i] : i \in DOMAIN f}
Names == Range(NUMBERS) \cup {MODE, LED_ON_OFF, CONNECTION} \cup UnknownNames

\* attr.startswith(prefix)
StartsWith(attr, prefix) ==
    /\ Len(attr) >= Len(prefix)
    /\ SubSeq(attr, 1, Len(prefix)) = prefix

\* Python values of different types, kept apart by their field name.
IntV(n) == [int |-> n]
StrV(x) == [str |-> x]
BoolV(b) == [bool |-> b]
Absent == [absent |-> TRUE]      \* no such key in the dict
IsInt(v) == DOMAIN v = {"int"}

\* What a caller sees of a call: how it ended, what it returned, how often
\* it ran the attribute-change listeners (updates_component) and the
\* connectivity listeners (updates_connect), the payloads it handed to
\* the update callback, and the values the attribute-change listeners of
\* decode_update_packet found when they ran.
Outcome(op, out) ==
    [op |-> op, out |-> out, ret |-> Absent, fired |-> 0, conn |-> 0,
     delivered |-> <<>>, seen |-> Absent]

\* Device.__init__ (lines 38-56): update_ble(advertisement) without a
\* descriptor and with no listener registered yet, then the default values.
\* The Client holds descriptor 1, the one the Device was constructed with.
DeviceInit ==
    /\ values = [n \in Names |->
                   CASE n \in Range(NUMBERS) -> IntV(0)
                     [] n = MODE -> StrV(MODES[1])
                     [] n = LED_ON_OFF -> BoolV(FALSE)
                     [] OTHER -> Absent]
    /\ conn_info = [last_seen |-> 0, rssi |-> 0]
    /\ device = 1
    /\ receive_buffer = <<>>
    /\ arrived = <<>>
    /\ updates_connect = 0
    /\ updates_component = 0
    /\ call = Outcome("init", "return")
    /\ codec = [pc |-> "idle", p |-> <<>>, wire |-> <<>>, out |-> <<>>]

\* Client.__init__ followed by Device.__init__.
Init == LinkInit /\ DeviceInit

\* ---------------------------------------------------------------------
\* Helpers: Device.set_connected, handles, task slots
\* ---------------------------------------------------------------------

\* Client._set_status -> Device.set_connected: the flag is written at once;
\* the listeners are not called here but queued with call_soon_threadsafe
\* (the call is made on the event loop, so get_running_loop() succeeds).
SetStatus(s, b) ==
    [s EXCEPT !.connected = b,
              !.pendingFires = Min(@ + 1, MaxPending),
              !.falseCount = IF ~b /\ s.stopped /\ s.stop.pc # "done"
                             THEN Min(@ + 1, MaxFalse) ELSE @]

\* A handle id is in use while a session or a reference to it exists.
InUse(s, h) ==
    \/ h \in s.open
    \/ h = s.client
    \/ h = s.connect_task.h
    \/ h = s.stop.h
    \/ \E t \in Tasks : s.tasks[t].h = h

FreeHandles(s) == {h \in Handles : ~InUse(s, h)}

\* establish_connection returned a new connected BleakClient.
NewHandle(s) == CHOOSE h \in FreeHandles(s) : \A g \in FreeHandles(s) : h <= g

\* The transport session of h is gone.
CloseHandle(s, h) ==
    [s EXCEPT !.open = @ \ {h}, !.handshaken = @ \ {h}]

\* A task slot can hold a new task when no coroutine runs in it and neither
\* Client.ping_task nor the stop() coroutine still refers to the old one.
FreeTasks(s) ==
    {t \in Tasks : /\ s.tasks[t].pc = "off"
                   /\ t # s.ping_task
                   /\ t # s.stop.task}

TaskDone(s, t) == s.tasks[t].pc = "off"

\* ping_future.done(): the future a task made is pending only while that
\* task is suspended on it.
FuturePending(s) ==
    /\ s.ping_future # 0
    /\ s.tasks[s.ping_future].pc = "idle"

\* ping_future.cancel(): the waiting task is scheduled to resume.
CancelFuture(s, why) ==
    IF FuturePending(s)
    THEN [s EXCEPT !.tasks[s.ping_future].pc = "woken",
                   !.tasks[s.ping_future].dl = 0,
                   !.tasks[s.ping_future].wake = why]
    ELSE s

\* ---------------------------------------------------------------------
\* Client._ping_loop: the synchronous code between its awaits
\* ---------------------------------------------------------------------

\* Lines 220-222 up to the await in _safe_disconnect; with no client the
\* coroutine runs to its end.
LoopFinal(s, t) ==
    LET s1 == SetStatus(s, FALSE) IN
    IF s1.client # 0
    THEN [s1 EXCEPT !.tasks[t].pc = "fin_disc", !.tasks[t].h = s1.client,
                    !.tasks[t].data = NoData, !.tasks[t].dl = OpTime]
    ELSE [s1 EXCEPT !.ping_task = 0, !.tasks[t] = OffTask]

\* Lines 215-217 and the loop condition when the sleep is skipped.
LoopAfterIter(s, t) ==
    IF ~s.stopped
    THEN [s EXCEPT !.tasks[t].pc = "sleep", !.tasks[t].h = 0,
                   !.tasks[t].data = NoData,
                   !.tasks[t].dl = RECONNECT_DELAY]
    ELSE LoopFinal(s, t)

\* The except branches for TimeoutError, BleakError and Exception
\* (lines 196-213): _safe_disconnect up to its await.
LoopErr(s, t) ==
    LET s1 == SetStatus(s, FALSE) IN
    IF s1.client # 0
    THEN [s1 EXCEPT !.tasks[t].pc = "err_disc", !.tasks[t].h = s1.client,
                    !.tasks[t].data = NoData, !.tasks[t].dl = OpTime]
    ELSE LoopAfterIter(s1, t)

\* self.client.<op>(...): with client None the attribute access raises
\* AttributeError, which the except Exception branch handles.
LoopStartOp(s, t, op) ==
    IF s.client = 0
    THEN LoopErr(s, t)
    ELSE [s EXCEPT !.tasks[t].pc = op, !.tasks[t].h = s.client,
                   !.tasks[t].dl = OpTime]

\* Lines 186-192: clear the command, make the future and its timer.
LoopIdle(s, t) ==
    [s EXCEPT !.send_data = NoData,
              !.sentSince = NoSends,
              !.ping_future = t,
              !.tasks[t].pc = "idle", !.tasks[t].h = 0,
              !.tasks[t].data = NoData,
              !.tasks[t].dl = PING_INTERVAL]

\* Line 179 without the expiry test: a pending command is always written.
CommandDueIgnoringExpiry(s) == s.send_data # NoData

\* Line 179: a command is pending and has not expired.
CommandDue(s) == s.send_data # NoData /\ s.send_time > 0

\* Lines 178-186 up to the await of the write.
LoopCommand(s, t) ==
    IF CommandDue(s)
    THEN IF s.client = 0
         THEN LoopErr(s, t)
         ELSE [s EXCEPT !.tasks[t].pc = "cmd_write",
                        !.tasks[t].h = s.client,
                        !.tasks[t].data = s.send_data,
                        !.tasks[t].dl = OpTime,
                        !.lastCmd = "write"]
    ELSE LoopIdle([s EXCEPT !.lastCmd = IF s.send_data # NoData
                                        THEN "drop" ELSE "none"], t)

\* Line 155 and, inside the loop, lines 158-176 up to the first await.
\* alive: whether the fixture has kept the session of the current client
\* until now (it can drop it at any time: out of range, power loss), which
\* is what client.is_connected reads.
LoopTop(s, t, alive) ==
    LET s0 == IF alive THEN s ELSE CloseHandle(s, s.client)
        s1 == [s0 EXCEPT !.tasks[t].wake = "none", !.lastCmd = "none"] IN
    IF ~s1.stopped /\ s1.ping_time > 0
    THEN IF s1.client = 0 \/ s1.client \notin s1.open
         THEN [s1 EXCEPT !.tasks[t].pc = "connecting", !.tasks[t].h = 0,
                         !.tasks[t].dl = OpTime]
         ELSE LoopStartOp(s1, t, "ka_read")
    ELSE LoopFinal(s1, t)

\* ---------------------------------------------------------------------
\* The event loop
\* ---------------------------------------------------------------------

\* Something on the event loop is ready to run now: a callback queued with
\* call_soon, the first step of a task, a task whose future or sleep is
\* over, a coroutine whose awaited task has ended.  The event loop runs
\* these before it waits for the transport or the clock again.  (Cancelling
\* a task that is inside a transport call is not among them: the transport
\* cleans up first, which takes time.)
Ready ==
    \/ connect_task.pc = "start"
    \/ stop.pc = "await_connect" /\ connect_task.pc = "done"
    \/ stop.pc = "await_ping" /\ tasks[stop.task].pc = "off"
    \/ \E t \in Tasks :
          \/ tasks[t].pc \in {"start", "woken"}
          \/ tasks[t].pc \in {"idle", "sleep"} /\ tasks[t].dl = 0
          \/ tasks[t].pc = "sleep" /\ tasks[t].cancel

\* A queued call_soon callback runs before anything that becomes ready
\* after it.
CanRun == pendingFires = 0

\* The event loop waits for the transport, a timer or a call from the host.
CanWait == pendingFires = 0 /\ ~Ready

\* ---------------------------------------------------------------------
\* Client._ping_loop: one action per resumption of the task
\* ---------------------------------------------------------------------

Running(t) == tasks[t].pc # "off" /\ ~tasks[t].cancel

\* First step of a task made by ping().
LoopStart(t, alive) ==
    /\ Running(t) /\ tasks[t].pc = "start"
    /\ CanRun
    /\ ~alive => client \in open
    /\ Commit(LoopTop(Cur, t, alive))

\* establish_connection returns (line 160); start_notify is awaited.
LoopConnectOk(t) ==
    /\ Running(t) /\ tasks[t].pc = "connecting"
    /\ CanWait
    /\ FreeHandles(Cur) # {}
    /\ LET h == NewHandle(Cur) IN
       Commit([Cur EXCEPT !.client = h, !.open = @ \cup {h},
                          !.tasks[t].pc = "notifying", !.tasks[t].h = h,
                          !.tasks[t].dl = OpTime])

\* start_notify returns (line 163): status True, then the handshake read.
LoopNotifyOk(t) ==
    /\ Running(t) /\ tasks[t].pc = "notifying"
    /\ CanWait
    /\ tasks[t].h \in open
    /\ Commit(LoopStartOp(SetStatus(Cur, TRUE), t, "hs_read"))

\* Handshake read returns (line 167): the request-state write is awaited.
LoopHsReadOk(t) ==
    /\ Running(t) /\ tasks[t].pc = "hs_read"
    /\ CanWait
    /\ tasks[t].h \in open
    /\ Commit(LoopStartOp(Cur, t, "hs_write"))

\* Handshake write returns (line 168): the keep-alive read is awaited.
LoopHsWriteOk(t) ==
    /\ Running(t) /\ tasks[t].pc = "hs_write"
    /\ CanWait
    /\ tasks[t].h \in open
    /\ Commit(LoopStartOp([Cur EXCEPT !.handshaken = @ \cup {tasks[t].h}],
                          t, "ka_read"))

\* Keep-alive read returns (line 176): the command step.
LoopKaReadOk(t) ==
    /\ Running(t) /\ tasks[t].pc = "ka_read"
    /\ CanWait
    /\ tasks[t].h \in open
    /\ Commit(LoopCommand(Cur, t))

\* Command write returns (line 180): clear the command, idle wait.
LoopWriteOk(t) ==
    /\ Running(t) /\ tasks[t].pc = "cmd_write"
    /\ CanWait
    /\ tasks[t].h \in open
    /\ Commit(LoopIdle(Cur, t))

\* A transport call inside the try block raises (timeout, BleakError or
\* anything else): the three except branches do the same.
LoopOpFail(t) ==
    /\ Running(t)
    /\ CanWait
    /\ tasks[t].pc \in {"connecting", "notifying", "hs_read", "hs_write",
                        "ka_read", "cmd_write"}
    /\ Commit(LoopErr([Cur EXCEPT !.sentSince =
                          IF tasks[t].pc = "cmd_write" THEN NoSends ELSE @], t))

\* loop.call_later(PING_INTERVAL, ping_future.cancel) fires (line 190).
TimerFire(t) ==
    /\ tasks[t].pc = "idle"
    /\ CanRun
    /\ tasks[t].dl = 0
    /\ Commit([Cur EXCEPT !.tasks[t].pc = "woken", !.tasks[t].wake = "timer"])

\* The task resumes after its future was cancelled; the CancelledError,
\* also the one of task.cancel(), is suppressed (lines 191-192).
LoopWake(t) ==
    /\ tasks[t].pc = "woken"
    /\ CanRun
    /\ Commit(LoopAfterIter([Cur EXCEPT !.tasks[t].cancel = FALSE], t))

\* asyncio.sleep(RECONNECT_DELAY) returns (line 217).
LoopSleepDone(t, alive) ==
    /\ Running(t) /\ tasks[t].pc = "sleep"
    /\ CanRun
    /\ tasks[t].dl = 0
    /\ ~alive => client \in open
    /\ Commit(LoopTop(Cur, t, alive))

\* disconnect() in _safe_disconnect returns or raises (lines 237-241),
\* called from an except branch; either way the session is taken to be
\* closed and the code goes on with line 241.
LoopErrDiscDone(t) ==
    /\ Running(t) /\ tasks[t].pc = "err_disc"
    /\ CanWait
    /\ Commit(LoopAfterIter([CloseHandle(Cur, tasks[t].h)
                                EXCEPT !.client = 0], t))

\* The same, called from line 220; then line 221.
LoopFinDiscDone(t) ==
    /\ Running(t) /\ tasks[t].pc = "fin_disc"
    /\ CanWait
    /\ Commit([CloseHandle(Cur, tasks[t].h)
                  EXCEPT !.client = 0, !.ping_task = 0, !.tasks[t] = OffTask])

\* task.cancel() is delivered at an await inside the try block:
\* except CancelledError: break (lines 194-195).
LoopCancelledInTry(t) ==
    /\ tasks[t].cancel
    /\ CanWait
    /\ tasks[t].pc \in {"connecting", "notifying", "hs_read", "hs_write",
                        "ka_read", "cmd_write"}
    /\ Commit(LoopFinal([Cur EXCEPT !.tasks[t].cancel = FALSE,
                                    !.tasks[t].h = 0,
                                    !.sentSince = IF tasks[t].pc = "cmd_write"
                                                  THEN NoSends ELSE @], t))

\* task.cancel() is delivered while the task is in a disconnect of
\* _safe_disconnect (lines 201-213 or 220): the CancelledError leaves the
\* coroutine, line 241 and line 221 are not run.  The disconnect that was
\* under way may or may not have closed the session.
LoopCancelledInDisconnect(t, closed) ==
    /\ tasks[t].cancel
    /\ CanWait
    /\ tasks[t].pc \in {"err_disc", "fin_disc"}
    /\ LET s1 == IF closed THEN CloseHandle(Cur, tasks[t].h) ELSE Cur IN
       Commit([s1 EXCEPT !.tasks[t] = OffTask])

\* task.cancel() is delivered before the first step or in the sleep of
\* line 217, outside the try block: the task ends at once.
LoopCancelledOutside(t) ==
    /\ tasks[t].cancel
    /\ CanRun
    /\ tasks[t].pc \in {"start", "sleep"}
    /\ Commit([Cur EXCEPT !.tasks[t] = OffTask])

\* ---------------------------------------------------------------------
\* Client._connect: the construction-time connect task
\* ---------------------------------------------------------------------

ConnectRunning == connect_task.pc # "done" /\ ~connect_task.cancel

\* self.client.<op>(...) in _connect: with client None the AttributeError
\* is not among the caught exceptions and ends the task.
ConnectStartOp(s, op) ==
    IF s.client = 0
    THEN [s EXCEPT !.connect_task.pc = "done", !.connect_task.h = 0,
                   !.connect_task.dl = 0]
    ELSE [s EXCEPT !.connect_task.pc = op, !.connect_task.h = s.client,
                   !.connect_task.dl = OpTime]

\* First step of the task: establish_connection is awaited (line 121).
ConnectStart ==
    /\ ConnectRunning /\ connect_task.pc = "start"
    /\ CanRun
    /\ Commit([Cur EXCEPT !.connect_task.pc = "connecting",
                          !.connect_task.dl = OpTime])

\* establish_connection returns: client is set, start_notify is awaited.
ConnectEstablished ==
    /\ ConnectRunning /\ connect_task.pc = "connecting"
    /\ CanWait
    /\ FreeHandles(Cur) # {}
    /\ LET h == NewHandle(Cur) IN
       Commit([Cur EXCEPT !.client = h, !.open = @ \cup {h},
                          !.connect_task.pc = "notifying",
                          !.connect_task.h = h,
                          !.connect_task.dl = OpTime])

\* start_notify returns (line 125): status True (line 127), handshake read.
ConnectNotifyOk ==
    /\ ConnectRunning /\ connect_task.pc = "notifying"
    /\ CanWait
    /\ connect_task.h \in open
    /\ Commit(ConnectStartOp(SetStatus(Cur, TRUE), "hs_read"))

\* Handshake read returns (line 130): the request-state write is awaited.
ConnectHsReadOk ==
    /\ ConnectRunning /\ connect_task.pc = "hs_read"
    /\ CanWait
    /\ connect_task.h \in open
    /\ Commit(ConnectStartOp(Cur, "hs_write"))

\* Handshake write returns (line 133): the task is done.
ConnectHsWriteOk ==
    /\ ConnectRunning /\ connect_task.pc = "hs_write"
    /\ CanWait
    /\ connect_task.h \in open
    /\ Commit([Cur EXCEPT !.handshaken = @ \cup {connect_task.h},
                          !.connect_task.pc = "done", !.connect_task.h = 0,
                          !.connect_task.dl = 0])

\* A transport call raises BleakError, TimeoutError or OSError
\* (lines 139-145): status False; the client is left as it is.
ConnectFail ==
    /\ ConnectRunning /\ connect_task.pc \in ConnIO
    /\ CanWait
    /\ Commit([SetStatus(Cur, FALSE) EXCEPT !.connect_task.pc = "done",
                                            !.connect_task.h = 0,
                                            !.connect_task.dl = 0])

\* task.cancel() is delivered: CancelledError is not caught in _connect.
ConnectCancelled ==
    /\ connect_task.cancel /\ connect_task.pc # "done"
    /\ CanWait
    /\ Commit([Cur EXCEPT !.connect_task =
                              [pc |-> "done", h |-> 0, dl |-> 0,
                               cancel |-> FALSE]])

\* ---------------------------------------------------------------------
\* Client.stop
\* ---------------------------------------------------------------------

\* Lines 94: report False; the coroutine returns.
StopEnd(s) ==
    [SetStatus(s, FALSE) EXCEPT
        !.stop = [pc |-> "done", task |-> 0, h |-> 0, dl |-> 0]]

\* Lines 87-89 up to the await of disconnect.
StopTail(s) ==
    IF s.client # 0
    THEN [s EXCEPT !.stop = [pc |-> "disc", task |-> 0, h |-> s.client,
                             dl |-> OpTime]]
    ELSE StopEnd(s)

\* Lines 81-85 for the poll-loop task the for statement captured.
StopPing(s) ==
    LET t == s.stop.task IN
    IF t # 0 /\ ~TaskDone(s, t)
    THEN [s EXCEPT !.stop.pc = "await_ping",
                   !.tasks[t].cancel = TRUE,
                   !.tasks[t].pc = IF @ = "idle" THEN "woken" ELSE @,
                   !.tasks[t].dl = IF s.tasks[t].pc = "idle" THEN 0 ELSE @,
                   !.tasks[t].wake = IF s.tasks[t].pc = "idle"
                                     THEN "stop" ELSE @]
    ELSE StopTail(s)

\* Lines 81-85 for the connect task.
StopConnect(s) ==
    IF s.connect_task.pc # "done"
    THEN [s EXCEPT !.stop.pc = "await_connect", !.connect_task.cancel = TRUE]
    ELSE StopPing(s)

\* stop() is called (lines 76-85 up to the first await).
StopBegin ==
    /\ stop.pc = "idle"
    /\ CanWait
    /\ LET s1 == CancelFuture([Cur EXCEPT !.stopped = TRUE], "stop")
           s2 == [s1 EXCEPT !.stop.task = s1.ping_task]
       IN Commit(StopConnect(s2))

\* await connect_task returns.
StopConnectAwaited ==
    /\ stop.pc = "await_connect"
    /\ CanRun
    /\ connect_task.pc = "done"
    /\ Commit(StopPing(Cur))

\* await ping_task returns.
StopPingAwaited ==
    /\ stop.pc = "await_ping"
    /\ CanRun
    /\ TaskDone(Cur, stop.task)
    /\ Commit(StopTail(Cur))

\* disconnect() of line 89 returns or raises; lines 92-94.
StopDiscDone ==
    /\ stop.pc = "disc"
    /\ CanWait
    /\ Commit(StopEnd([CloseHandle(Cur, stop.h) EXCEPT !.client = 0]))

\* ---------------------------------------------------------------------
\* Calls from the host, the timers and the environment
\* ---------------------------------------------------------------------

\* Line 62 without its test: every ping() makes a task.
NeedsNewTaskAlways(s) == TRUE

\* Line 62: no poll-loop task, or the last one has ended.
NeedsNewTask(s) == s.ping_task = 0 \/ TaskDone(s, s.ping_task)

\* Client.ping (lines 58-63).
PingCall(s) ==
    LET s1 == [s EXCEPT !.ping_time = ACTIVE_TIME, !.quiet = 0] IN
    IF NeedsNewTask(s1)
    THEN LET t == CHOOSE x \in FreeTasks(s1) : \A y \in FreeTasks(s1) : x <= y
         IN [s1 EXCEPT !.ping_task = t,
                       !.tasks[t] = [OffTask EXCEPT !.pc = "start"]]
    ELSE s1

Ping ==
    /\ CanWait
    /\ NeedsNewTask(Cur) => FreeTasks(Cur) # {}
    /\ Commit(PingCall(Cur))

\* Lines 67-68 with a slot that keeps a pending payload: first write wins.
SendDataKeepsFirst(s, p) ==
    [s EXCEPT !.send_time = COMMAND_TIME,
              !.send_data = IF @ = NoData THEN p ELSE @]

\* Lines 67-68: last write wins.
SendData(s, p) == [s EXCEPT !.send_time = COMMAND_TIME, !.send_data = p]

Sent(q, p) == [n |-> Min(q.n + 1, 2), last |-> p]

\* Client.send (lines 65-72) on the state s.
ClientSend(s, p) ==
    LET s1 == PingCall(SendData(s, p))
        s2 == CancelFuture(s1, "send")
    IN [s2 EXCEPT !.sentSince =
           IF \E t \in Tasks : s.tasks[t].pc = "cmd_write"
           THEN @ ELSE Sent(@, p)]

\* Client.send called by the host with one of the payloads.
Send(p) ==
    /\ CanWait
    /\ NeedsNewTask(Cur) => FreeTasks(Cur) # {}
    /\ Commit(ClientSend(Cur, p))

\* A queued _fire_connect_handlers runs: the connectivity listeners are
\* invoked (device.py lines 94-96).
FireConnectHandlers ==
    /\ pendingFires > 0
    /\ Commit([Cur EXCEPT !.pendingFires = @ - 1])

Down(x) == IF x > Step THEN x - Step ELSE 0

\* A transport call has used up the time it can take.
OpOverdue ==
    \/ connect_task.pc \in ConnIO /\ connect_task.dl = 0
    \/ stop.pc = "disc" /\ stop.dl = 0
    \/ \E t \in Tasks : tasks[t].pc \in LoopIO /\ tasks[t].dl = 0

\* Step seconds pass while the event loop has nothing to run.
Tick ==
    /\ CanWait
    /\ ~OpOverdue
    /\ Commit([Cur EXCEPT !.quiet = Min(@ + Step, QuietMax),
                          !.ping_time = Down(@),
                          !.send_time = Down(@),
                          !.connect_task.dl = Down(@),
                          !.stop.dl = Down(@),
                          !.tasks = [t \in Tasks |->
                                       [@[t] EXCEPT !.dl = Down(@)]]])

Next ==
    \/ \E t \in Tasks :
          \/ \E alive \in BOOLEAN : LoopStart(t, alive)
          \/ LoopConnectOk(t)
          \/ LoopNotifyOk(t)
          \/ LoopHsReadOk(t)
          \/ LoopHsWriteOk(t)
          \/ LoopKaReadOk(t)
          \/ LoopWriteOk(t)
          \/ LoopOpFail(t)
          \/ TimerFire(t)
          \/ LoopWake(t)
          \/ \E alive \in BOOLEAN : LoopSleepDone(t, alive)
          \/ LoopErrDiscDone(t)
          \/ LoopFinDiscDone(t)
          \/ LoopCancelledInTry(t)
          \/ \E closed \in BOOLEAN : LoopCancelledInDisconnect(t, closed)
          \/ LoopCancelledOutside(t)
    \/ ConnectStart
    \/ ConnectEstablished
    \/ ConnectNotifyOk
    \/ ConnectHsReadOk
    \/ ConnectHsWriteOk
    \/ ConnectFail
    \/ ConnectCancelled
    \/ StopBegin
    \/ StopConnectAwaited
    \/ StopPingAwaited
    \/ StopDiscDone
    \/ Ping
    \/ \E p \in Payloads : Send(p)
    \/ FireConnectHandlers
    \/ Tick

Spec == Init /\ [][Next]_vars

\* ---------------------------------------------------------------------
\* Codec (core/client.py encrypt/decrypt over the encryption module)
\* ---------------------------------------------------------------------

RECURSIVE BitXor(_, _)
\* a ^ b on non-negative integers
BitXor(a, b) ==
    IF a = 0 THEN b
    ELSE IF b = 0 THEN a
    ELSE (((a % 2) + (b % 2)) % 2) + 2 * BitXor(a \div 2, b \div 2)

RECURSIVE XorAll(_)
\* The bytes of data folded with ^.
XorAll(data) ==
    IF data = <<>> THEN 0 ELSE BitXor(Head(data), XorAll(Tail(data)))

\* Key material of the symmetric transform.
TransformKey == 14

\* encryption.add_crc: appends the checksum trailer.
add_crc(data) == Append(data, XorAll(data))

\* encryption.encrypt: the reversible symmetric transform.
encryption_encrypt(data) ==
    [i \in 1..Len(data) |-> BitXor(data[i], TransformKey)]

\* encryption.decrypt: the inverse transform; the trailer is not verified
\* and stays in the result.
encryption_decrypt(data) ==
    [i \in 1..Len(data) |-> BitXor(data[i], TransformKey)]

\* encrypt that leaves out the checksum trailer.
encryptWithoutCrc(data) == encryption_encrypt(data)

\* encrypt (lines 244-247)
encrypt(data) == encryption_encrypt(add_crc(data))

\* decrypt (lines 250-252)
decrypt(data) == encryption_decrypt(data)

\* Plaintexts the codec is applied to.
CodecBytes == {0, 14, 104, 255}
RECURSIVE SeqsUpTo(_, _)
SeqsUpTo(S, n) ==
    IF n = 0 THEN {<<>>}
    ELSE LET shorter == SeqsUpTo(S, n - 1) IN
         shorter \cup {Append(q, b) : q \in shorter, b \in S}
Plaintexts == SeqsUpTo(CodecBytes, MaxPlain)

\* A caller picks a plaintext.
CodecStart(p) ==
    /\ codec.pc \in {"idle", "done"}
    /\ codec' = [pc |-> "plain", p |-> p, wire |-> <<>>, out |-> <<>>]
    /\ UNCHANGED <<values, conn_info, device, receive_buffer, call, arrived,
                   updates_connect, updates_component>>
    /\ CommitLink(Cur)

\* encrypt(p) is computed.
CodecEncrypt ==
    /\ codec.pc = "plain"
    /\ codec' = [codec EXCEPT !.pc = "wire", !.wire = encrypt(codec.p)]
    /\ UNCHANGED <<values, conn_info, device, receive_buffer, call, arrived,
                   updates_connect, updates_component>>
    /\ CommitLink(Cur)

\* decrypt is computed on the wire bytes.
CodecDecrypt ==
    /\ codec.pc = "wire"
    /\ codec' = [codec EXCEPT !.pc = "done", !.out = decrypt(codec.wire)]
    /\ UNCHANGED <<values, conn_info, device, receive_buffer, call, arrived,
                   updates_connect, updates_component>>
    /\ CommitLink(Cur)

CodecNext ==
    \/ \E p \in Plaintexts : CodecStart(p)
    \/ CodecEncrypt
    \/ CodecDecrypt

CodecSpec == Init /\ [][CodecNext]_vars

\* ---------------------------------------------------------------------
\* Device operations (core/device.py) and the notification handler
\* (core/client.py notify_callback)
\* ---------------------------------------------------------------------

FRAGMENT_LEN == 17     \* client.py line 103: length of a continuation fragment
MIN_PACKET == 13       \* device.py line 157: shortest packet that is decoded
MaxFrags == 2          \* continuation fragments the buffer holds at most
MaxListeners == 1      \* listeners registered per topic at most

\* data[i] with Python's index, which starts at 0
At(data, i) == data[i + 1]

\* Lines 171-174 with the two bytes in the other order.
WordBigEndian(data, i) == At(data, i) * 256 + (At(data, i + 1) % 256)

\* (data[i + 1] << 8) | (data[i] & 0xFF) on bytes
Word(data, i) == At(data, i + 1) * 256 + (At(data, i) % 256)

\* device.py line 157: the packet is decoded at all
Decodes(data) == ~(data = <<>> \/ Len(data) < MIN_PACKET)

\* Lines 175-179 left out: outside manual mode the channels stay.
DecodeValuesKeepingChannels(vals, data) ==
    LET m == At(data, 2)
        v1 == [vals EXCEPT ![MODE] = IF m = 0 THEN StrV(MODES[1])
                                     ELSE IF m = 1 THEN StrV(MODES[2])
                                     ELSE IF m = 2 THEN StrV(MODES[3])
                                     ELSE @]
        v2 == [v1 EXCEPT ![LED_ON_OFF] = BoolV(At(data, 3) > 0)]
    IN IF v2[MODE] = StrV("manual")
       THEN [v2 EXCEPT ![Channel("1")] = IntV(Word(data, 5)),
                       ![Channel("2")] = IntV(Word(data, 7)),
                       ![Channel("3")] = IntV(Word(data, 9)),
                       ![Channel("4")] = IntV(Word(data, 11))]
       ELSE v2

\* Lines 161-166 with a default branch: any other byte 2 selects manual.
DecodeValuesDefaultingToManual(vals, data) ==
    LET m == At(data, 2)
        v1 == [vals EXCEPT ![MODE] = IF m = 1 THEN StrV(MODES[2])
                                     ELSE IF m = 2 THEN StrV(MODES[3])
                                     ELSE StrV(MODES[1])]
        v2 == [v1 EXCEPT ![LED_ON_OFF] = BoolV(At(data, 3) > 0)]
    IN IF v2[MODE] = StrV("manual")
       THEN [v2 EXCEPT ![Channel("1")] = IntV(Word(data, 5)),
                       ![Channel("2")] = IntV(Word(data, 7)),
                       ![Channel("3")] = IntV(Word(data, 9)),
                       ![Channel("4")] = IntV(Word(data, 11))]
       ELSE [v2 EXCEPT ![Channel("1")] = IntV(0),
                       ![Channel("2")] = IntV(0),
                       ![Channel("3")] = IntV(0),
                       ![Channel("4")] = IntV(0)]

\* device.py lines 161-179 on a packet that is decoded
DecodeValues(vals, data) ==
    LET m == At(data, 2)
        v1 == [vals EXCEPT ![MODE] = IF m = 0 THEN StrV(MODES[1])
                                     ELSE IF m = 1 THEN StrV(MODES[2])
                                     ELSE IF m = 2 THEN StrV(MODES[3])
                                     ELSE @]
        v2 == [v1 EXCEPT ![LED_ON_OFF] = BoolV(At(data, 3) > 0)]
    IN IF v2[MODE] = StrV("manual")
       THEN [v2 EXCEPT ![Channel("1")] = IntV(Word(data, 5)),
                       ![Channel("2")] = IntV(Word(data, 7)),
                       ![Channel("3")] = IntV(Word(data, 9)),
                       ![Channel("4")] = IntV(Word(data, 11))]
       ELSE [v2 EXCEPT ![Channel("1")] = IntV(0),
                       ![Channel("2")] = IntV(0),
                       ![Channel("3")] = IntV(0),
                       ![Channel("4")] = IntV(0)]

\* decode_update_packet whose early return runs the listeners too.
DecodeCallAlwaysNotifying(vals, data, n) ==
    IF Decodes(data)
    THEN [values |-> DecodeValues(vals, data), fired |-> n,
          seen |-> [values |-> DecodeValues(vals, data)]]
    ELSE [values |-> vals, fired |-> n, seen |-> [values |-> vals]]

\* decode_update_packet with the loop of lines 191-192 moved before the
\* assignments of lines 161-179.
DecodeCallNotifyingFirst(vals, data, n) ==
    IF Decodes(data)
    THEN [values |-> DecodeValues(vals, data), fired |-> n,
          seen |-> [values |-> vals]]
    ELSE [values |-> vals, fired |-> 0, seen |-> Absent]

\* Device.decode_update_packet (lines 155-192) with n attribute-change
\* listeners registered: the values afterwards, the listeners invoked and
\* the values they find.
DecodeCall(vals, data, n) ==
    IF Decodes(data)
    THEN [values |-> DecodeValues(vals, data), fired |-> n,
          seen |-> [values |-> DecodeValues(vals, data)]]
    ELSE [values |-> vals, fired |-> 0, seen |-> Absent]

\* notify_callback that forgets to empty the buffer after a delivery.
ReassembleKeepingBuffer(buf, decrypted) ==
    IF Len(decrypted) = FRAGMENT_LEN
    THEN [buffer |-> buf \o decrypted, deliver |-> <<>>]
    ELSE [buffer |-> buf, deliver |-> <<buf \o decrypted>>]

\* client.py lines 105-112: the buffer afterwards and the payloads handed
\* to the update callback.
Reassemble(buf, decrypted) ==
    IF Len(decrypted) = FRAGMENT_LEN
    THEN [buffer |-> buf \o decrypted, deliver |-> <<>>]
    ELSE [buffer |-> <<>>, deliver |-> <<buf \o decrypted>>]

\* Packets the fixture sends: n bytes, the mode byte m at offset 2, the
\* power byte p at offset 3, and a different byte at every other offset.
Packet(n, m, p) ==
    [i \in 1..n |-> IF i = 3 THEN m ELSE IF i = 4 THEN p ELSE 16 + i]
PacketLens == {0, MIN_PACKET - 1, MIN_PACKET, FRAGMENT_LEN}
ModeBytes == {0, 1, 2, 3}
PowerBytes == {0, 2}
Packets == {Packet(n, m, p) : n \in PacketLens, m \in ModeBytes, p \in PowerBytes}
\* Fragments of packets, and what arrives for them on the notify
\* characteristic: the fragments, transformed.
Fragments == {Packet(n, m, p) : n \in PacketLens, m \in {0, 1}, p \in PowerBytes}
WireFragments == {encryption_encrypt(f) : f \in Fragments}

\* A step of the Device or of the notification handler that leaves the
\* link as the record s says.
DeviceStep(s) ==
    /\ CommitLink(s)
    /\ UNCHANGED codec

\* Client.notify_callback (lines 100-112); the update callback is
\* Device.decode_update_packet (device.py line 43).
NotifyCallback(data) ==
    LET decrypted == decrypt(data)
        r == Reassemble(receive_buffer, decrypted)
        d == IF r.deliver = <<>>
             THEN [values |-> values, fired |-> 0, seen |-> Absent]
             ELSE DecodeCall(values, r.deliver[1], updates_component)
    IN /\ Len(decrypted) = FRAGMENT_LEN
            => Len(receive_buffer) < MaxFrags * FRAGMENT_LEN
       /\ receive_buffer' = r.buffer
       /\ arrived' = IF Len(decrypted) = FRAGMENT_LEN
                     THEN Append(arrived, decrypted) ELSE <<>>
       /\ values' = d.values
       /\ call' = [Outcome("notify_callback", "return") EXCEPT
                      !.fired = d.fired, !.delivered = r.deliver,
                      !.seen = d.seen]
       /\ UNCHANGED <<conn_info, device, updates_connect, updates_component>>
       /\ DeviceStep(Cur)

ReassemblyNext == \E data \in WireFragments : NotifyCallback(data)

ReassemblySpec == Init /\ [][ReassemblyNext]_vars

\* The transport calls notify_callback (the callback given to start_notify,
\* lines 125 and 163) with a fragment the fixture sent on the session of
\* the current client, after the handshake on it.
SessionNotify(data) ==
    /\ CanWait
    /\ client \in handshaken \cap open
    /\ NotifyCallback(data)

\* The poll loop over sessions that fail and are re-established, with the
\* fixture's notifications; the construction-time connect fails.
SessionNext ==
    \/ \E t \in Tasks :
          \/ \E alive \in BOOLEAN : LoopStart(t, alive)
          \/ LoopConnectOk(t)
          \/ LoopNotifyOk(t)
          \/ LoopHsReadOk(t)
          \/ LoopHsWriteOk(t)
          \/ LoopKaReadOk(t)
          \/ LoopOpFail(t)
          \/ TimerFire(t)
          \/ LoopWake(t)
          \/ \E alive \in BOOLEAN : LoopSleepDone(t, alive)
          \/ LoopErrDiscDone(t)
    \/ ConnectStart
    \/ ConnectFail
    \/ Ping
    \/ FireConnectHandlers
    \/ Tick
    \/ \E data \in {encryption_encrypt(Packet(n, 0, 2)) :
                        n \in {MIN_PACKET, FRAGMENT_LEN}} : SessionNotify(data)

SessionSpec == Init /\ [][SessionNext]_vars

\* Device.decode_update_packet called with a complete payload.
DecodeUpdatePacket(data) ==
    LET d == DecodeCall(values, data, updates_component) IN
    /\ values' = d.values
    /\ call' = [Outcome("decode_update_packet", "return") EXCEPT
                   !.fired = d.fired, !.seen = d.seen]
    /\ UNCHANGED <<conn_info, device, receive_buffer, arrived, updates_connect,
                   updates_component>>
    /\ DeviceStep(Cur)

\* Device.register_update (lines 117-122)
RegisterUpdate(attr) ==
    /\ IF attr = CONNECTION
       THEN /\ updates_connect < MaxListeners
            /\ updates_connect' = updates_connect + 1
            /\ UNCHANGED updates_component
       ELSE /\ updates_component < MaxListeners
            /\ updates_component' = updates_component + 1
            /\ UNCHANGED updates_connect
    /\ call' = Outcome("register_update", "return")
    /\ UNCHANGED <<values, conn_info, device, receive_buffer, arrived>>
    /\ DeviceStep(Cur)

\* v & 0xFF and (v >> 8) & 0xFF
LowByte(v) == v % 256
HighByte(v) == (v \div 256) % 256

\* self.values.get(ch, 0)
GetOr0(vals, ch) == IF vals[ch] = Absent THEN IntV(0) ELSE vals[ch]

RECURSIVE ChannelBytesHighFirst(_, _)
\* Lines 134-135 in the other order: high byte, then low byte.
ChannelBytesHighFirst(vals, chs) ==
    IF chs = <<>> THEN <<>>
    ELSE LET v == GetOr0(vals, Head(chs)).int
         IN <<HighByte(v), LowByte(v)>> \o ChannelBytesHighFirst(vals, Tail(chs))

RECURSIVE ChannelBytes(_, _)
\* Lines 132-135: the loop over the channels chs
ChannelBytes(vals, chs) ==
    IF chs = <<>> THEN <<>>
    ELSE LET v == GetOr0(vals, Head(chs)).int
         IN <<LowByte(v), HighByte(v)>> \o ChannelBytes(vals, Tail(chs))

\* Lines 131-135: the set-brightness frame
BrightnessFrame(vals) == <<104, 4>> \o ChannelBytes(vals, NUMBERS)

\* The commands of the Device reach Client.send when the link can make
\* the poll-loop task send() may need.
CanSend == NeedsNewTask(Cur) => FreeTasks(Cur) # {}

\* Device.set_value (lines 124-136).  The & of line 134 raises TypeError
\* on a channel that holds a string.
SetValue(attr, value) ==
    LET vals == [values EXCEPT ![attr] = IntV(value)] IN
    /\ CanSend
    /\ values' = vals
    /\ UNCHANGED <<conn_info, device, receive_buffer, arrived, updates_connect,
                   updates_component>>
    /\ IF \A i \in DOMAIN NUMBERS : IsInt(GetOr0(vals, NUMBERS[i]))
       THEN /\ call' = Outcome("set_value", "return")
            /\ DeviceStep(ClientSend(Cur, BrightnessFrame(vals)))
       ELSE /\ call' = Outcome("set_value", "TypeError")
            /\ DeviceStep(Cur)

\* MODES.index(option)
ModeIndex(option) == (CHOOSE i \in DOMAIN MODES : MODES[i] = option) - 1

\* Device.select_option (lines 138-145)
SelectOption(attr, option) ==
    /\ CanSend
    /\ values' = [values EXCEPT ![attr] = StrV(option)]
    /\ call' = Outcome("select_option", "return")
    /\ UNCHANGED <<conn_info, device, receive_buffer, arrived, updates_connect,
                   updates_component>>
    /\ IF attr = MODE /\ option \in Range(MODES)
       THEN DeviceStep(ClientSend(Cur, <<104, 2, ModeIndex(option)>>))
       ELSE DeviceStep(Cur)

\* Device.set_led_power (lines 147-153)
SetLedPower(on) ==
    /\ CanSend
    /\ values' = [values EXCEPT ![LED_ON_OFF] = BoolV(on)]
    /\ call' = [Outcome("set_led_power", "return") EXCEPT
                   !.fired = updates_component]
    /\ UNCHANGED <<conn_info, device, receive_buffer, arrived, updates_connect,
                   updates_component>>
    /\ DeviceStep(ClientSend(Cur, <<104, 3, IF on THEN 1 ELSE 0>>))

\* Arguments the entities and other callers pass.
\* number.py line 44: a number entity exists for each of NUMBERS;
\* select.py line 42: a select entity exists for each of SELECTS, and the
\* option is whatever the caller passes.
SetValues == {0, 700, 1000}
Options == Range(MODES) \cup {"eco"}

\* The Device with its attribute-change listeners, fed by the fixture's
\* packets and by the entities; the number entities are those of two
\* channels the packets report and of the one they do not.
DeviceNext ==
    \/ RegisterUpdate(MODE)
    \/ \E data \in Packets : DecodeUpdatePacket(data)
    \/ \E attr \in {Channel("1"), Channel("4"), Channel("5")}, value \in {0, 700} :
          SetValue(attr, value)
    \/ \E option \in Options : SelectOption(MODE, option)
    \/ \E on \in BOOLEAN : SetLedPower(on)

DeviceSpec == Init /\ [][DeviceNext]_vars

\* The number entities of all five channels alone.
BrightnessNext ==
    \E attr \in Range(NUMBERS), value \in SetValues : SetValue(attr, value)

BrightnessSpec == Init /\ [][BrightnessNext]_vars

\* The Device with listeners of both topics, fed by the fixture's packets
\* and by the switch entity.
ListenerNext ==
    \/ \E attr \in {CONNECTION, MODE} : RegisterUpdate(attr)
    \/ \E data \in Packets : DecodeUpdatePacket(data)
    \/ \E on \in BOOLEAN : SetLedPower(on)

ListenerSpec == Init /\ [][ListenerNext]_vars

\* Device.attribute (lines 106-115): what the call returns, None being
\* Absent, or the exception it raises.
AttributeCall(vals, is_on, info, attr) ==
    IF attr = CONNECTION
    THEN [out |-> "return", ret |-> [is_on |-> is_on, extra |-> info]]
    ELSE IF StartsWith(attr, CHANNEL_PREFIX)
    THEN IF vals[attr] = Absent
         THEN [out |-> "KeyError", ret |-> Absent]
         ELSE [out |-> "return",
               ret |-> [min |-> 0, max |-> 1000, step |-> 50,
                        value |-> vals[attr]]]
    ELSE IF attr = MODE
    THEN [out |-> "return", ret |-> [options |-> MODES, default |-> vals[attr]]]
    ELSE IF attr = LED_ON_OFF
    THEN [out |-> "return", ret |-> [is_on |-> vals[attr]]]
    ELSE [out |-> "return", ret |-> Absent]

\* An entity or another caller reads an attribute.
Attribute(attr) ==
    LET r == AttributeCall(values, connected, conn_info, attr) IN
    /\ call' = [Outcome("attribute", r.out) EXCEPT !.ret = r.ret]
    /\ UNCHANGED <<values, conn_info, device, receive_buffer, arrived,
                   updates_connect, updates_component>>
    /\ DeviceStep(Cur)

\* Device.update_ble (lines 63-78) at the time now, with an advertisement
\* of signal strength rssi and with the descriptor ble_device, 0 being
\* None.  Line 75 calls Client.update_ble_device, a method core/client.py
\* does not define: the call raises AttributeError.
UpdateBle(now, rssi, ble_device) ==
    /\ conn_info' = [last_seen |-> now, rssi |-> rssi]
    /\ call' = IF ble_device # 0
               THEN Outcome("update_ble", "AttributeError")
               ELSE [Outcome("update_ble", "return") EXCEPT
                        !.conn = updates_connect]
    /\ UNCHANGED <<values, device, receive_buffer, arrived,
                   updates_connect, updates_component>>
    /\ DeviceStep(Cur)

\* Clock readings, signal strengths and descriptors of update_ble:
\* descriptor 1 is the one of construction, 2 a refreshed one.
Times == {1, 2}
Rssis == {-60, -70}
BleDevices == {0, 1, 2}

\* The Device as the bluetooth callback and the entities' reads see it.
SurfaceNext ==
    \/ \E attr \in {CONNECTION, MODE} : RegisterUpdate(attr)
    \/ \E attr \in Names : Attribute(attr)
    \/ \E now \in Times, rssi \in Rssis, ble_device \in BleDevices :
          UpdateBle(now, rssi, ble_device)

SurfaceSpec == Init /\ [][SurfaceNext]_vars

\* ---------------------------------------------------------------------
\* Properties
\* ---------------------------------------------------------------------

StopReturned == stop.pc = "done"

LiveTasks == {t \in Tasks : tasks[t].pc # "off"}

\* No two of the task objects ts hold a coroutine that has not ended.
AtMostOneTask(ts) ==
    \A t, u \in Tasks : (ts[t].pc # "off" /\ ts[u].pc # "off") => t = u

\* Positions in which a poll-loop or connect task has a transport connect
\* attempt, a read of the keep-alive characteristic or a command write
\* under way.
LinkCalls == {"connecting", "hs_read", "ka_read", "cmd_write"}

\* The step in which task t, its keep-alive read done, takes the command
\* step of a tick (lines 178-186) and goes on to the write or to the idle wait.
CommandStep(t) ==
    /\ tasks[t].pc = "ka_read"
    /\ tasks'[t].pc \in {"cmd_write", "idle"}

\* C1: once stop() has returned, no connectivity listener is invoked again
\* and the connectivity flag reads false.
C1_StopFinality ==
    [][StopReturned => /\ ~connected'
                       /\ pendingFires' >= pendingFires]_vars

\* C2: a link that holds a handle and gets no send() or ping() for longer
\* than ACTIVE_TIME disconnects the handle and reports connectivity false:
\* once more than ACTIVE_TIME has passed without a call and no task of the
\* link is left to act, the handle is gone and the flag is false.
C2_KeepAliveExpiry ==
    (/\ ~stopped
     /\ stop.pc = "idle"
     /\ quiet > ACTIVE_TIME
     /\ connect_task.pc = "done"
     /\ LiveTasks = {})
    => (client = 0 /\ ~connected)

\* C3 as stated: when two or more send() calls precede the next command
\* step, that step transmits exactly one write, with the last payload.
C3_ExactlyOneWrite ==
    [][\A t \in Tasks :
          (CommandStep(t) /\ sentSince.n = 2)
          => (tasks'[t].pc = "cmd_write" /\ tasks'[t].data = sentSince.last)]_vars

\* C3 amended: every send() replaces the pending payload; when two or more
\* send() calls precede the next command step, that step transmits at most
\* one write: one write with the last payload if that payload has not
\* expired, and otherwise none, the payload being dropped.  Either way no
\* earlier payload is left to be transmitted.
C3_Coalescing ==
    [][/\ (sentSince' # sentSince /\ sentSince'.n > 0)
          => send_data' = sentSince'.last
       /\ \A t \in Tasks :
             (CommandStep(t) /\ sentSince.n = 2)
             => /\ send_data = sentSince.last
                /\ IF send_time > 0
                   THEN /\ tasks'[t].pc = "cmd_write"
                        /\ tasks'[t].data = sentSince.last
                        /\ send_data' = sentSince.last
                   ELSE /\ tasks'[t].pc = "idle"
                        /\ send_data' = NoData]_vars

\* A write is under way that carries the last of two or more payloads.
C3_Witness ==
    \E t \in Tasks :
        /\ tasks[t].pc = "cmd_write"
        /\ sentSince.n = 2
        /\ tasks[t].data = sentSince.last
        /\ lastCmd = "write"

\* C4: a payload whose COMMAND_TIME has passed when the command step is
\* reached is dropped without a write and is not left for a later tick; a
\* write is started only for the pending payload and before its expiry.
C4_CommandExpiry ==
    [][\A t \in Tasks :
          /\ (tasks'[t].pc = "cmd_write" /\ tasks[t].pc # "cmd_write")
             => /\ send_data # NoData
                /\ send_time > 0
                /\ tasks'[t].data = send_data
          /\ (CommandStep(t) /\ send_data # NoData /\ send_time = 0)
             => /\ tasks'[t].pc = "idle"
                /\ send_data' = NoData
                /\ lastCmd' = "drop"]_vars

\* The command step has just dropped an expired payload.
C4_Witness ==
    /\ lastCmd = "drop"
    /\ send_data = NoData
    /\ send_time = 0
    /\ \E t \in Tasks : tasks[t].pc = "idle"

\* C5: at most one handle is open at any time and it is the one the link
\* refers to.
C5_SingleHandle == \A h \in open : h = client

\* C6: during a stop(), connectivity false is reported exactly once.
C6_FalseOnce == StopReturned => falseCount = 1

\* C7: connectivity is true only for a handle on which the handshake has
\* completed.
C7_TrueAfterHandshake == connected => client \in handshaken

\* C8: once stopped is set no transport connect attempt, no keep-alive
\* read and no command write is started, and once stop() has returned the client stays absent.
C8_StoppedTerminal ==
    [][/\ stopped
          => /\ \A t \in Tasks :
                   tasks'[t].pc \in LinkCalls
                   => tasks'[t].pc = tasks[t].pc
             /\ connect_task'.pc \in LinkCalls
                => connect_task'.pc = connect_task.pc
       /\ StopReturned => client' = 0]_vars

\* C9: at most one poll-loop task exists before and after every step, and
\* a ping() while one exists moves the keep-alive deadline and changes
\* nothing else of the link.  (Every ping() sets quiet to 0.)
C9_PingIdempotent ==
    [][/\ AtMostOneTask(tasks)
       /\ AtMostOneTask(tasks')
       /\ (LiveTasks # {} /\ quiet' = 0 /\ Ping)
          => /\ ping_time' = ACTIVE_TIME
             /\ UNCHANGED <<client, open, handshaken, stopped, ping_task,
                            ping_future, send_data, send_time, tasks,
                            connect_task, stop, connected, pendingFires>>]_vars

\* ping() was called while the loop was in its idle wait, part of which
\* had already passed.
C9_Witness ==
    \E t \in Tasks :
        /\ tasks[t].pc = "idle"
        /\ tasks[t].dl = PING_INTERVAL - Step
        /\ ping_task = t
        /\ ping_time = ACTIVE_TIME
        /\ quiet = 0

\* C10: a send() that wakes the idle wait is followed by the tick that
\* transmits the payload without any timed delay in between.
C10_NoDelayAfterSend ==
    \A t \in Tasks : ~(tasks[t].pc = "sleep" /\ tasks[t].wake = "send")

InTransport ==
    (IF connect_task.pc \in ConnIO THEN 1 ELSE 0)
    + (IF stop.pc = "disc" THEN 1 ELSE 0)
    + Cardinality({t \in Tasks : tasks[t].pc \in LoopIO})

\* C20: at no time are two coroutines of the link inside a transport call.
C20_SingleIOTask == InTransport <= 1

RECURSIVE Flatten(_)
\* The concatenation of the byte sequences of ss in their order.
Flatten(ss) == IF ss = <<>> THEN <<>> ELSE Head(ss) \o Flatten(Tail(ss))

\* C11: the notification handler hands nothing to the update callback on a
\* fragment of 17 decrypted bytes; on a fragment of any other length it
\* hands over exactly one payload, the concatenation in arrival order of
\* the continuation fragments before it and of that fragment, and leaves
\* the buffer empty; meanwhile the buffer holds the continuation fragments.
C11_Reassembly ==
    [][\A data \in WireFragments :
          NotifyCallback(data) =>
             LET last == encryption_decrypt(data) IN
             IF Len(last) = FRAGMENT_LEN
             THEN /\ call'.delivered = <<>>
                  /\ receive_buffer' = Flatten(Append(arrived, last))
             ELSE /\ call'.delivered = <<Flatten(Append(arrived, last))>>
                  /\ receive_buffer' = <<>>]_vars

\* Two continuation fragments and a last fragment of 13 bytes were
\* delivered as one payload.
C11_Witness ==
    /\ call.op = "notify_callback"
    /\ Len(call.delivered) = 1
    /\ Len(call.delivered[1]) = 2 * FRAGMENT_LEN + MIN_PACKET
    /\ receive_buffer = <<>>

\* C12: decode_update_packet on a payload of fewer than 13 bytes, the empty
\* one included, changes no attribute value and invokes no attribute-change
\* listener.
C12_ShortPacketIgnored ==
    [][\A data \in Packets :
          Len(data) < 13 /\ DecodeUpdatePacket(data) =>
             /\ values' = values
             /\ call'.fired = 0]_vars

\* A short payload was ignored while a listener is registered and the
\* values are not those of construction.
C12_Witness ==
    /\ call.op = "decode_update_packet"
    /\ call.fired = 0
    /\ updates_component > 0
    /\ values[Channel("1")] = IntV(700)
    /\ values[MODE] = StrV("professional")

\* C13: after decode_update_packet on a payload of at least 13 bytes whose
\* byte 2 is 0, mode is manual, led_on_off is (byte 3 > 0) and channel_k,
\* k = 1..4, is byte[4+2k] * 256 + byte[3+2k], whatever the values before.
C13_ManualDecode ==
    [][\A data \in Packets :
          Len(data) >= 13 /\ data[2 + 1] = 0 /\ DecodeUpdatePacket(data) =>
             /\ values'[MODE] = StrV("manual")
             /\ values'[LED_ON_OFF] = BoolV(data[3 + 1] > 0)
             /\ \A k \in 1..4 :
                   values'[NUMBERS[k]] =
                      IntV(data[4 + 2 * k + 1] * 256 + data[3 + 2 * k + 1])]_vars

\* A manual-mode packet was decoded: channel_1 = 23 * 256 + 22 from
\* offsets 6 and 5, channel_4 = 29 * 256 + 28 from offsets 12 and 11.
C13_Witness ==
    /\ call.op = "decode_update_packet"
    /\ call.fired > 0
    /\ values[MODE] = StrV("manual")
    /\ values[LED_ON_OFF] = BoolV(TRUE)
    /\ values[Channel("1")] = IntV(5910)
    /\ values[Channel("4")] = IntV(7452)
    /\ values[Channel("5")] = IntV(700)

\* C14: after decode_update_packet on a payload of at least 13 bytes whose
\* byte 2 is 1 or 2, channel_1..channel_4 are 0, whatever bytes 5..12 are
\* and whatever the channels held before.
C14_NonManualForcing ==
    [][\A data \in Packets :
          Len(data) >= 13 /\ data[2 + 1] \in {1, 2} /\ DecodeUpdatePacket(data) =>
             \A k \in 1..4 : values'[NUMBERS[k]] = IntV(0)]_vars

\* A packet with mode byte 1 and non-zero bytes at offsets 5..12 was
\* decoded after set_value had been used.
C14_Witness ==
    /\ call.op = "decode_update_packet"
    /\ call.fired > 0
    /\ values[MODE] = StrV("automatic")
    /\ \A k \in 1..4 : values[NUMBERS[k]] = IntV(0)
    /\ values[Channel("5")] = IntV(700)
    /\ send_data = <<104, 4, 188, 2, 0, 0, 0, 0, 188, 2, 188, 2>>

\* C15: values['mode'] is always one of manual, automatic, professional.
C15_ModeInSet == values[MODE] \in {StrV(MODES[i]) : i \in DOMAIN MODES}

\* C17: set_value(channel_k, v) stores v as channel_k, leaves the other
\* four channels as they were, and installs as the pending command the 12
\* bytes 0x68, 0x04 and then, for channel_1..channel_5 in this order, the
\* low byte and the high byte of the channel's value.
C17_BrightnessFrame ==
    [][\A attr \in Range(NUMBERS), value \in SetValues :
          SetValue(attr, value) =>
             /\ values'[attr] = IntV(value)
             /\ \A ch \in Range(NUMBERS) \ {attr} : values'[ch] = values[ch]
             /\ Len(send_data') = 12
             /\ send_data'[1] = 104
             /\ send_data'[2] = 4
             /\ \A k \in 1..5 :
                   /\ send_data'[2 * k + 1] = values'[NUMBERS[k]].int % 256
                   /\ send_data'[2 * k + 2] = values'[NUMBERS[k]].int \div 256]_vars

\* set_value stored 1000 in channel_2 after 700 had been stored in
\* channel_1: 700 = 2 * 256 + 188, 1000 = 3 * 256 + 232.
C17_Witness ==
    /\ call = Outcome("set_value", "return")
    /\ values[Channel("1")] = IntV(700)
    /\ values[Channel("2")] = IntV(1000)
    /\ send_data = <<104, 4, 188, 2, 232, 3, 0, 0, 0, 0, 0, 0>>

\* The names Device.attribute is documented to know.
KnownNames == Range(NUMBERS) \cup {MODE, LED_ON_OFF, CONNECTION}

\* C16: attribute(name) returns without raising for every name, a value for
\* connection, channel_1..channel_5, mode and led_on_off and none for every
\* other name.
C16_AttributeTotal ==
    [][\A attr \in Names :
          Attribute(attr) =>
             /\ call'.out = "return"
             /\ (call'.ret # Absent) <=> (attr \in KnownNames)]_vars

\* The link's connection state: handle, connectivity flag, poll loop,
\* pending command.
LinkState == <<client, open, connected, ping_task, tasks, send_data>>

\* C18: update_ble with a refreshed descriptor sets last_seen and rssi,
\* makes the Client hold the refreshed descriptor, invokes every registered
\* connectivity listener once and leaves the link's connection state as it is.
C18_UpdateBle ==
    [][\A now \in Times, rssi \in Rssis, ble_device \in BleDevices \ {0} :
          UpdateBle(now, rssi, ble_device) =>
             /\ conn_info' = [last_seen |-> now, rssi |-> rssi]
             /\ device' = ble_device
             /\ call'.out = "return"
             /\ call'.conn = updates_connect
             /\ LinkState' = LinkState]_vars

\* C21: a poll-loop task awaits its keep-alive read or its command write
\* only on a handle on which the handshake (read, then request-state
\* write) has completed.
C21_HandshakeBeforeAlive ==
    \A t \in Tasks :
       tasks[t].pc \in {"ka_read", "cmd_write"} => tasks[t].h \in handshaken

\* C23: when the write of the pending command raises, the slot is empty
\* after the tick's error handling has begun.
C23_ClearedOnFailure ==
    [][\A t \in Tasks :
          tasks[t].pc = "cmd_write" /\ LoopOpFail(t) =>
             send_data' = NoData]_vars

\* C26: while the link is not stopped, the keep-alive deadline lies in the
\* future and a command is pending, a poll-loop task exists that has not
\* left its loop.
C26_LoopOutlivesDeadline ==
    (~stopped /\ ping_time > 0 /\ send_data # NoData) =>
       \E t \in Tasks : tasks[t].pc \notin {"off", "fin_disc"}

\* C27: the tick that ends with the return of a command write does not
\* empty the slot when the slot holds a payload installed after the write
\* began, other than the one written, that has not expired.
C27_NoSilentLoss ==
    [][\A t \in Tasks :
          (/\ LoopWriteOk(t)
           /\ send_data # tasks[t].data
           /\ send_time > 0) => send_data' = send_data]_vars

\* C28: when the connectivity flag is true the Client holds a handle, and
\* when a poll-loop task has completed a keep-alive read on an open handle
\* and waits for the next tick the connectivity flag is true.
C28_FlagMatchesHandle ==
    /\ connected => client # 0
    /\ \A t \in Tasks :
          (tasks[t].pc = "idle" /\ client \in open) => connected

\* C22: when a transport call of a tick raises, the loop reports
\* connectivity false and disconnects the current handle if there is one;
\* when the disconnect is over the handle is cleared and, unless the link
\* is stopped, the loop waits RECONNECT_DELAY; and when that wait is over
\* with the link not stopped and the keep-alive window open, the loop
\* starts a new connect attempt.
C22_UniformRecovery ==
    [][\A t \in Tasks :
          /\ LoopOpFail(t) =>
                /\ ~connected'
                /\ \/ tasks'[t].pc = "err_disc" /\ tasks'[t].h = client
                   \/ client = 0 /\ (stopped \/ tasks'[t].pc = "sleep")
          /\ LoopErrDiscDone(t) =>
                /\ client' = 0
                /\ ~stopped => /\ tasks'[t].pc = "sleep"
                               /\ tasks'[t].dl = RECONNECT_DELAY
          /\ \A alive \in BOOLEAN :
                (/\ LoopSleepDone(t, alive)
                 /\ tasks[t].wake = "none"
                 /\ ~stopped /\ ping_time > 0) =>
                    tasks'[t].pc = "connecting"]_vars

\* C24: after decode_update_packet on a payload of at least 13 bytes whose
\* byte 2 is not 0, 1 or 2, the mode is what it was, led_on_off is
\* (byte 3 > 0), and channel_1..channel_4 are decoded from bytes 5..12 if
\* that mode is manual and are 0 otherwise.
C24_NarrowModeDecode ==
    [][\A data \in Packets :
          (/\ Len(data) >= 13
           /\ data[2 + 1] \notin {0, 1, 2}
           /\ DecodeUpdatePacket(data)) =>
             /\ values'[MODE] = values[MODE]
             /\ values'[LED_ON_OFF] = BoolV(data[3 + 1] > 0)
             /\ \A k \in 1..4 :
                   values'[NUMBERS[k]] =
                      IF values[MODE] = StrV("manual")
                      THEN IntV(data[4 + 2 * k + 1] * 256 + data[3 + 2 * k + 1])
                      ELSE IntV(0)]_vars

\* A packet was decoded and left the mode at a value no mode byte selects
\* (stored by select_option), after set_value had stored 700 in channel_1
\* and channel_5: channel_1 is forced to 0.
C24_Witness ==
    /\ call.op = "decode_update_packet"
    /\ call.fired > 0
    /\ values[MODE] = StrV("eco")
    /\ values[LED_ON_OFF] = BoolV(TRUE)
    /\ \A k \in 1..4 : values[NUMBERS[k]] = IntV(0)
    /\ send_data = <<104, 4, 188, 2, 0, 0, 0, 0, 0, 0, 188, 2>>

\* C25: decode_update_packet on a payload of at least 13 bytes invokes the
\* attribute-change listeners once each, they find the values the call
\* leaves behind, whether or not the call changed any, and no connectivity
\* listener is invoked.
C25_OneNotification ==
    [][\A data \in Packets :
          Len(data) >= 13 /\ DecodeUpdatePacket(data) =>
             /\ call'.fired = updates_component
             /\ call'.seen = [values |-> values']
             /\ call'.conn = 0]_vars

\* A packet was decoded with a listener of each topic registered.
C25_Witness ==
    /\ call.op = "decode_update_packet"
    /\ updates_component > 0
    /\ updates_connect > 0
    /\ call.fired = updates_component
    /\ call.seen = [values |-> values]
    /\ values[MODE] = StrV("automatic")

\* C29: when the poll loop installs a new handle, the reassembly buffer is
\* empty.
C29_BufferPerSession ==
    [][\A t \in Tasks : LoopConnectOk(t) => receive_buffer' = <<>>]_vars

====
